---- MODULE Spec2Model ----
(***************************************************************************)
(* A model of the Http request adapter of src/index.ts: the error-listener *)
(* registry (addErrorListener and its positional unsubscribe closure), the *)
(* request() call (cancel token, configuration defaults, the promise it    *)
(* returns and the promise.catch(onError) side chain), the onError fan-out *)
(* (a for-of loop over the live listener array), convertToFormData and     *)
(* normalizeProgress.                                                      *)
(*                                                                         *)
(* The axios transport is an environment: a request it was given settles   *)
(* once, a request whose cancel token was cancelled rejects with a Cancel. *)
(***************************************************************************)
EXTENDS Integers, Sequences, FiniteSets, TLC

VARIABLES
    errorListeners,  \* Http.errorListeners: the sequence of registered listener ids
    listenerCount,   \* number of addErrorListener calls so far (listener ids 1..listenerCount)
    behaviour,       \* what each listener's callback does when invoked
    count,           \* the `count` captured by each listener's unsubscribe closure
    unsubCalled,     \* history: how often each listener's unsubscribe function was invoked
    requestCount,    \* number of request() calls so far (request ids 1..requestCount)
    callerConfig,    \* history: the hooks the caller supplied to each request() call
    submitted,       \* the configuration each request() call handed to the transport
    cancelFn,        \* the cancel token the cancel function returned by each call cancels
    tokenReason,     \* per cancel token: cancellation has been requested
    promises,        \* the promise objects: the transport's and the .catch(onError) ones
    returned,        \* the promise each request() call returned to its caller
    rejection,       \* history: the value the transport rejected each request with
    cancelledPending,\* history: the call's cancel function was invoked while it was pending
    notified,        \* history: the kind onError classified each failed request as
    lastHandled,     \* history: the fan-out of the latest onError run
    payload,         \* convertToFormData: the data object, as its fields in for-in order
    formData,        \* convertToFormData: the entries of the FormData it returned
    formDone,        \* convertToFormData has run
    onProgress,      \* request() was given an onProgress callback
    event,           \* the ProgressEvent delivered to the installed progress hook
    progressCalls,   \* the values onProgress was called with
    progressDone     \* the progress event has been delivered

vars == <<errorListeners, listenerCount, behaviour, count, unsubCalled, requestCount,
          callerConfig, submitted, cancelFn, tokenReason, promises, returned, rejection,
          cancelledPending, notified, lastHandled, payload, formData, formDone, onProgress, event,
          progressCalls, progressDone>>

formVars == <<payload, formData, formDone>>

progressVars == <<onProgress, event, progressCalls, progressDone>>

(***************************************************************************)
(* Bounds                                                                  *)
(***************************************************************************)
\* Spec: addErrorListener calls and request() calls.
MaxListeners == 2

MaxRequests == 2

\* SpecCancel: request() calls and addErrorListener calls.
CancelRequests == 2

CancelListeners == 1

\* SpecConfig: request() calls and addErrorListener calls.
ConfigRequests == 1

ConfigListeners == 1

\* Invocations of one unsubscribe function by the caller.
MaxUnsubCalls == 2

\* SpecForm: fields of the data object and elements of a list-valued field.
MaxFields == 2

MaxListLen == 2

\* SpecProgress: the largest loaded and total of a progress event.
MaxBytes == 7

None == [kind |-> "none"]

Range(s) == {s[i] : i \in 1..Len(s)}

Min(a, b) == IF a < b THEN a ELSE b

(***************************************************************************)
(* Errors and their classification                                         *)
(***************************************************************************)
errorTypes == [response |-> "response", request |-> "request",
               cancel |-> "cancel", unknown |-> "unknown"]

\* A rejection value, by the three markers onError looks at; `of` is the
\* request it belongs to (the identity of the error object).
ErrorOf(r, cancel, response, request) ==
    [kind |-> "error", of |-> r, cancel |-> cancel,
     response |-> response, request |-> request]

\* isCancel(value): axios.isCancel, the Cancel mark of the value.
isCancel(value) == value.cancel

ClassifyResponseFirst(error) ==
    IF error.response THEN errorTypes.response
    ELSE IF isCancel(error) THEN errorTypes.cancel
    ELSE IF error.request THEN errorTypes.request
    ELSE errorTypes.unknown

\* onError, lines 116-124: the if / else-if chain.
Classify(error) ==
    IF isCancel(error) THEN errorTypes.cancel
    ELSE IF error.response THEN errorTypes.response
    ELSE IF error.request THEN errorTypes.request
    ELSE errorTypes.unknown

(***************************************************************************)
(* The listener registry                                                   *)
(***************************************************************************)
\* What a listener's callback does: nothing, throw, or invoke the
\* unsubscribe function of listener `target` (its own or an earlier one's).
Noop == [kind |-> "noop", target |-> 0]

Throw == [kind |-> "throw", target |-> 0]

Unsub(k) == [kind |-> "unsub", target |-> k]

Behaviours(id) == {Noop, Throw} \cup {Unsub(k) : k \in 1..id}

QuietBehaviours(id) == {Noop, Throw}

\* Array.prototype.splice(start, 1) with start >= 0: removes the element at
\* 0-based index start, nothing when start is past the end.
Splice(ls, start) ==
    IF start >= Len(ls) THEN ls
    ELSE [i \in 1..(Len(ls) - 1) |-> IF i <= start THEN ls[i] ELSE ls[i + 1]]

\* The unsubscribe closure of listener l: errorListeners.splice(count-1, 1).
UnsubscribeFn(ls, l) == Splice(ls, count[l] - 1)

\* addErrorListener(listener), for a listener that behaves as b.
AddErrorListener(b) ==
    /\ errorListeners' = Append(errorListeners, listenerCount + 1)
    /\ count' = Append(count, Len(errorListeners) + 1)
    /\ behaviour' = Append(behaviour, b)
    /\ unsubCalled' = Append(unsubCalled, 0)
    /\ listenerCount' = listenerCount + 1
    /\ UNCHANGED <<requestCount, callerConfig, submitted, cancelFn, tokenReason,
                   promises, returned, rejection, cancelledPending, notified,
                   lastHandled, formVars, progressVars>>

\* The caller invokes the function addErrorListener returned for listener l.
Unsubscribe(l) ==
    /\ l \in 1..listenerCount
    /\ unsubCalled[l] < MaxUnsubCalls
    /\ errorListeners' = UnsubscribeFn(errorListeners, l)
    /\ unsubCalled' = [unsubCalled EXCEPT ![l] = @ + 1]
    /\ UNCHANGED <<listenerCount, behaviour, count, requestCount, callerConfig,
                   submitted, cancelFn, tokenReason, promises, returned, rejection,
                   cancelledPending, notified, lastHandled, formVars, progressVars>>

(***************************************************************************)
(* request()                                                               *)
(***************************************************************************)
\* The hooks a caller may put in the configuration: absent or its own.
CallerConfigs == [paramsSerializer : {"absent", "custom"},
                  transformRequest : {"absent", "custom"}]

BareConfig == [paramsSerializer |-> "absent", transformRequest |-> "absent"]

TransportPromise(r) == 2 * r - 1

CatchPromise(r) == 2 * r

Pending == [state |-> "pending", value |-> None]

Undefined == [kind |-> "undefined"]

ResponseOf(r) == [kind |-> "response", of |-> r]

ThrownBy(l) == [kind |-> "thrown", by |-> l]

SharedCancelToken(r) == 1

\* Line 44: new axios.CancelToken(...), a fresh token for every call.
NewCancelToken(r) == r

DefaultsCoupled(config) ==
    [paramsSerializer |-> IF config.paramsSerializer = "absent"
                          THEN "urlEncode" ELSE config.paramsSerializer,
     transformRequest |-> IF config.paramsSerializer = "absent"
                          THEN "convertToFormData" ELSE config.transformRequest]

\* Lines 46-52: each hook is defaulted when the configuration has none.
WithDefaults(config) ==
    [paramsSerializer |-> IF config.paramsSerializer = "absent"
                          THEN "urlEncode" ELSE config.paramsSerializer,
     transformRequest |-> IF config.transformRequest = "absent"
                          THEN "convertToFormData" ELSE config.transformRequest]

ReturnedCatchPromise(r) == CatchPromise(r)

\* Lines 60-68: the promise returned is the transport's own promise; the
\* promise that promise.catch(onError) creates is dropped.
ReturnedPromise(r) == TransportPromise(r)

\* request(config): lines 41-68.
Request(config) ==
    LET r == requestCount + 1
        t == NewCancelToken(r) IN
    /\ requestCount' = r
    /\ callerConfig' = Append(callerConfig, config)
    /\ tokenReason' = Append(tokenReason, FALSE)
    /\ submitted' = Append(submitted,
                           [cancelToken |-> t,
                            paramsSerializer |-> WithDefaults(config).paramsSerializer,
                            transformRequest |-> WithDefaults(config).transformRequest])
    /\ cancelFn' = Append(cancelFn, t)
    /\ promises' = promises \o <<Pending, Pending>>
    /\ returned' = Append(returned, ReturnedPromise(r))
    /\ rejection' = Append(rejection, None)
    /\ cancelledPending' = Append(cancelledPending, FALSE)
    /\ notified' = Append(notified, "")
    /\ UNCHANGED <<errorListeners, listenerCount, behaviour, count, unsubCalled,
                   lastHandled, formVars, progressVars>>

IsPending(r) ==
    /\ r \in 1..requestCount
    /\ promises[TransportPromise(r)].state = "pending"

\* The caller invokes the cancel function request() returned for call r.
\* CancelToken: the first call records the reason, later calls do nothing.
Cancel(r) ==
    /\ r \in 1..requestCount
    /\ tokenReason' = [tokenReason EXCEPT ![cancelFn[r]] = TRUE]
    /\ cancelledPending' = [cancelledPending EXCEPT ![r] = @ \/ IsPending(r)]
    /\ UNCHANGED <<errorListeners, listenerCount, behaviour, count, unsubCalled,
                   requestCount, callerConfig, submitted, cancelFn, promises, returned,
                   rejection, notified, lastHandled, formVars, progressVars>>

\* What the transport may answer a request that was not cancelled: a
\* response, or an error with or without its response and request attributes.
Outcomes == [fulfilled : {TRUE}, response : {FALSE}, request : {FALSE}]
                \cup [fulfilled : {FALSE}, response : BOOLEAN, request : BOOLEAN]

PlainOutcomes == {[fulfilled |-> TRUE, response |-> FALSE, request |-> FALSE],
                  [fulfilled |-> FALSE, response |-> TRUE, request |-> TRUE]}

\* The transport settles request r: with a Cancel when the token in its
\* configuration was cancelled (whatever attributes the value carries), else
\* as outcome o says.
TransportSettle(r, o) ==
    /\ IsPending(r)
    /\ LET cancelled == tokenReason[submitted[r].cancelToken]
           e == ErrorOf(r, cancelled, o.response, o.request)
       IN  IF cancelled \/ ~o.fulfilled
           THEN /\ promises' = [promises EXCEPT ![TransportPromise(r)] =
                                   [state |-> "rejected", value |-> e]]
                /\ rejection' = [rejection EXCEPT ![r] = e]
           ELSE /\ promises' = [promises EXCEPT ![TransportPromise(r)] =
                                   [state |-> "fulfilled", value |-> ResponseOf(r)]]
                /\ UNCHANGED rejection
    /\ UNCHANGED <<errorListeners, listenerCount, behaviour, count, unsubCalled,
                   requestCount, callerConfig, submitted, cancelFn, tokenReason,
                   returned, cancelledPending, notified, lastHandled, formVars,
                   progressVars>>

(***************************************************************************)
(* onError                                                                 *)
(***************************************************************************)
RECURSIVE NotifyLoop(_, _, _, _, _, _)
\* Lines 126-128: for (const listener of this.errorListeners) listener(error,
\* errorType). The array iterator reads the live array: at 0-based position
\* i it stops when i >= length, else calls the element at i and moves on; a
\* listener that throws ends the loop, one that unsubscribes splices the
\* array under the iterator.
NotifyLoop(ls, i, calls, unsub, error, errorType) ==
    IF i >= Len(ls)
    THEN [listeners |-> ls, calls |-> calls, unsub |-> unsub, thrown |-> None]
    ELSE LET l == ls[i + 1]
             called == Append(calls, [listener |-> l, error |-> error,
                                      type |-> errorType])
         IN  CASE behaviour[l].kind = "throw" ->
                    [listeners |-> ls, calls |-> called, unsub |-> unsub,
                     thrown |-> ThrownBy(l)]
               [] behaviour[l].kind = "unsub" ->
                    NotifyLoop(UnsubscribeFn(ls, behaviour[l].target), i + 1, called,
                               [unsub EXCEPT ![behaviour[l].target] =
                                    Min(@ + 1, MaxUnsubCalls)],
                               error, errorType)
               [] OTHER ->
                    NotifyLoop(ls, i + 1, called, unsub, error, errorType)

\* promise.catch(that.onError), lines 63 and 115-129: runs once for a
\* rejected transport promise and settles the promise .catch created.
OnError(r) ==
    /\ r \in 1..requestCount
    /\ promises[TransportPromise(r)].state = "rejected"
    /\ promises[CatchPromise(r)].state = "pending"
    /\ LET error == promises[TransportPromise(r)].value
           errorType == Classify(error)
           done == NotifyLoop(errorListeners, 0, <<>>, unsubCalled, error, errorType)
       IN  /\ errorListeners' = done.listeners
           /\ unsubCalled' = done.unsub
           /\ notified' = [notified EXCEPT ![r] = errorType]
           /\ lastHandled' = [kind |-> "handled",
                              error |-> error,
                              start |-> errorListeners,
                              unsubBefore |-> {l \in 1..listenerCount : unsubCalled[l] > 0},
                              calls |-> done.calls,
                              end |-> done.listeners,
                              thrown |-> done.thrown # None]
           /\ promises' = [promises EXCEPT ![CatchPromise(r)] =
                              IF done.thrown = None
                              THEN [state |-> "fulfilled", value |-> Undefined]
                              ELSE [state |-> "rejected", value |-> done.thrown]]
    /\ UNCHANGED <<listenerCount, behaviour, count, requestCount, callerConfig,
                   submitted, cancelFn, tokenReason, returned, rejection,
                   cancelledPending, formVars, progressVars>>

\* promise.catch on a fulfilled promise: the handler is not called and the
\* promise .catch created is fulfilled with the same value.
CatchPassThrough(r) ==
    /\ r \in 1..requestCount
    /\ promises[TransportPromise(r)].state = "fulfilled"
    /\ promises[CatchPromise(r)].state = "pending"
    /\ promises' = [promises EXCEPT ![CatchPromise(r)] = promises[TransportPromise(r)]]
    /\ UNCHANGED <<errorListeners, listenerCount, behaviour, count, unsubCalled,
                   requestCount, callerConfig, submitted, cancelFn, tokenReason,
                   returned, rejection, cancelledPending, notified, lastHandled,
                   formVars, progressVars>>

(***************************************************************************)
(* The specifications of the adapter                                       *)
(***************************************************************************)
Init ==
    /\ errorListeners = <<>>
    /\ listenerCount = 0
    /\ behaviour = <<>>
    /\ count = <<>>
    /\ unsubCalled = <<>>
    /\ requestCount = 0
    /\ callerConfig = <<>>
    /\ submitted = <<>>
    /\ cancelFn = <<>>
    /\ tokenReason = <<>>
    /\ promises = <<>>
    /\ returned = <<>>
    /\ rejection = <<>>
    /\ cancelledPending = <<>>
    /\ notified = <<>>
    /\ lastHandled = None
    /\ payload = <<>>
    /\ formData = <<>>
    /\ formDone = FALSE
    /\ onProgress = FALSE
    /\ event = None
    /\ progressCalls = <<>>
    /\ progressDone = FALSE

\* Listeners of every behaviour around requests that carry no hooks.
Next ==
    \/ /\ listenerCount < MaxListeners
       /\ \E b \in Behaviours(listenerCount + 1) : AddErrorListener(b)
    \/ \E l \in 1..listenerCount : Unsubscribe(l)
    \/ /\ requestCount < MaxRequests
       /\ Request(BareConfig)
    \/ \E r \in 1..requestCount : Cancel(r)
    \/ \E r \in 1..requestCount, o \in PlainOutcomes : TransportSettle(r, o)
    \/ \E r \in 1..requestCount : OnError(r)
    \/ \E r \in 1..requestCount : CatchPassThrough(r)

Spec == Init /\ [][Next]_vars

\* Interleaved requests and cancellations, with listeners that stay
\* registered and do not touch the registry.
NextCancel ==
    \/ /\ listenerCount < CancelListeners
       /\ \E b \in QuietBehaviours(listenerCount + 1) : AddErrorListener(b)
    \/ /\ requestCount < CancelRequests
       /\ Request(BareConfig)
    \/ \E r \in 1..requestCount : Cancel(r)
    \/ \E r \in 1..requestCount, o \in PlainOutcomes : TransportSettle(r, o)
    \/ \E r \in 1..requestCount : OnError(r)
    \/ \E r \in 1..requestCount : CatchPassThrough(r)

SpecCancel == Init /\ [][NextCancel]_vars

\* The transport and the microtask queue do not stall: a pending request
\* settles, and the .catch reaction of a settled promise runs.
FairSpecCancel ==
    /\ SpecCancel
    /\ \A r \in 1..CancelRequests :
          /\ WF_vars(\E o \in PlainOutcomes : TransportSettle(r, o))
          /\ WF_vars(OnError(r))
          /\ WF_vars(CatchPassThrough(r))

\* Every configuration and every transport answer, with listeners that stay
\* registered and do not touch the registry.
NextConfig ==
    \/ /\ listenerCount < ConfigListeners
       /\ \E b \in QuietBehaviours(listenerCount + 1) : AddErrorListener(b)
    \/ /\ requestCount < ConfigRequests
       /\ \E config \in CallerConfigs : Request(config)
    \/ \E r \in 1..requestCount : Cancel(r)
    \/ \E r \in 1..requestCount, o \in Outcomes : TransportSettle(r, o)
    \/ \E r \in 1..requestCount : OnError(r)
    \/ \E r \in 1..requestCount : CatchPassThrough(r)

SpecConfig == Init /\ [][NextConfig]_vars

(***************************************************************************)
(* convertToFormData                                                       *)
(***************************************************************************)
Names == {"f", "f[]", "g"}

Values == {"a", "b"}

\* A field of the data object: a scalar (one item) or a list of items.
Fields ==
    {fl \in [name : Names, list : BOOLEAN,
             items : UNION {[1..n -> Values] : n \in 0..MaxListLen}] :
        ~fl.list => Len(fl.items) = 1}

\* The data objects: their fields in for-in order, every key once.
Payloads ==
    {p \in UNION {[1..n -> Fields] : n \in 0..MaxFields} :
        \A i \in 1..Len(p), j \in 1..Len(p) : i # j => p[i].name # p[j].name}

\* FormData.append(name, value): a new entry at the end.
FormAppend(fd, name, value) == Append(fd, [name |-> name, value |-> value])

\* FormData.set(name, value): the first entry of that name is replaced and
\* the other entries of that name are removed; with none, a new entry.
FormSet(fd, name, value) ==
    LET at == {i \in 1..Len(fd) : fd[i].name = name} IN
    IF at = {} THEN FormAppend(fd, name, value)
    ELSE LET first == CHOOSE i \in at : \A j \in at : i <= j
             replaced == [fd EXCEPT ![first] = [name |-> name, value |-> value]]
             keep(i) == replaced[i].name # name \/ i = first
             kept == {i \in 1..Len(fd) : keep(i)}
             nth(k) == CHOOSE i \in kept : Cardinality({j \in kept : j <= i}) = k
         IN  [k \in 1..Cardinality(kept) |-> replaced[nth(k)]]

ListKeyBare(name) == name

\* Line 160: the key of a list element, name + '[]'.
ListKey(name) == name \o "[]"

RECURSIVE AppendItems(_, _, _, _)
\* Lines 159-161: for (let i = 0; i < value.length; i++) append.
AppendItems(fd, name, items, i) ==
    IF i > Len(items) THEN fd
    ELSE AppendItems(FormAppend(fd, ListKey(name), items[i]), name, items, i + 1)

RECURSIVE ConvertFields(_, _, _)
\* Lines 156-165: for (const name in data), from the k-th field on.
ConvertFields(data, k, fd) ==
    IF k > Len(data) THEN fd
    ELSE ConvertFields(data, k + 1,
                       IF data[k].list
                       THEN AppendItems(fd, data[k].name, data[k].items, 1)
                       ELSE FormSet(fd, data[k].name, data[k].items[1]))

\* convertToFormData(data, headers): lines 150-168.
ConvertToFormData(data) == ConvertFields(data, 1, <<>>)

\* The transport calls the installed transformRequest on the data object.
TransformRequest ==
    /\ ~formDone
    /\ formData' = ConvertToFormData(payload)
    /\ formDone' = TRUE
    /\ UNCHANGED <<errorListeners, listenerCount, behaviour, count, unsubCalled,
                   requestCount, callerConfig, submitted, cancelFn, tokenReason,
                   promises, returned, rejection, cancelledPending, notified,
                   lastHandled, payload, progressVars>>

InitForm ==
    /\ errorListeners = <<>>
    /\ listenerCount = 0
    /\ behaviour = <<>>
    /\ count = <<>>
    /\ unsubCalled = <<>>
    /\ requestCount = 0
    /\ callerConfig = <<>>
    /\ submitted = <<>>
    /\ cancelFn = <<>>
    /\ tokenReason = <<>>
    /\ promises = <<>>
    /\ returned = <<>>
    /\ rejection = <<>>
    /\ cancelledPending = <<>>
    /\ notified = <<>>
    /\ lastHandled = None
    /\ payload \in Payloads
    /\ formData = <<>>
    /\ formDone = FALSE
    /\ onProgress = FALSE
    /\ event = None
    /\ progressCalls = <<>>
    /\ progressDone = FALSE

NextForm == TransformRequest

SpecForm == InitForm /\ [][NextForm]_vars

(***************************************************************************)
(* normalizeProgress                                                       *)
(***************************************************************************)
Events == [lengthComputable : BOOLEAN, loaded : 0..MaxBytes, total : 0..MaxBytes]

\* Math.round((loaded / total) * 100): the nearest integer, a half rounded
\* up; with total = 0 the quotient is NaN (0 / 0) or Infinity, and so is the
\* result. (For totals up to 8 the double arithmetic gives the exact value.)
Percent(loaded, total) ==
    IF total = 0
    THEN [kind |-> IF loaded = 0 THEN "NaN" ELSE "Infinity", n |-> 0]
    ELSE [kind |-> "number", n |-> (200 * loaded + total) \div (2 * total)]

\* normalizeProgress(e, cb): lines 178-182; the calls made to cb.
NormalizeProgress(e) ==
    IF e.lengthComputable THEN <<Percent(e.loaded, e.total)>> ELSE <<>>

\* Lines 54-58: with an onProgress callback the upload and download hooks
\* hand every event to normalizeProgress; the transport delivers event e.
DeliverProgress(e) ==
    /\ onProgress
    /\ event' = e
    /\ progressCalls' = NormalizeProgress(e)
    /\ progressDone' = TRUE
    /\ UNCHANGED <<errorListeners, listenerCount, behaviour, count, unsubCalled,
                   requestCount, callerConfig, submitted, cancelFn, tokenReason,
                   promises, returned, rejection, cancelledPending, notified,
                   lastHandled, formVars, onProgress>>

InitProgress ==
    /\ errorListeners = <<>>
    /\ listenerCount = 0
    /\ behaviour = <<>>
    /\ count = <<>>
    /\ unsubCalled = <<>>
    /\ requestCount = 0
    /\ callerConfig = <<>>
    /\ submitted = <<>>
    /\ cancelFn = <<>>
    /\ tokenReason = <<>>
    /\ promises = <<>>
    /\ returned = <<>>
    /\ rejection = <<>>
    /\ cancelledPending = <<>>
    /\ notified = <<>>
    /\ lastHandled = None
    /\ payload = <<>>
    /\ formData = <<>>
    /\ formDone = FALSE
    /\ onProgress \in BOOLEAN
    /\ event = None
    /\ progressCalls = <<>>
    /\ progressDone = FALSE

NextProgress == \E e \in Events : DeliverProgress(e)

SpecProgress == InitProgress /\ [][NextProgress]_vars

(***************************************************************************)
(* Claims about convertToFormData (under SpecForm)                         *)
(***************************************************************************)
\* The values of the entries of the form body under key, in order.
EntriesUnder(key) ==
    LET at == {i \in 1..Len(formData) : formData[i].name = key}
        nth(k) == CHOOSE i \in at : Cardinality({j \in at : j <= i}) = k
    IN  [k \in 1..Cardinality(at) |-> formData[nth(k)].value]

FieldsConverted ==
    \A i \in 1..Len(payload) :
        IF payload[i].list
        THEN EntriesUnder(payload[i].name \o "[]") = payload[i].items
        ELSE EntriesUnder(payload[i].name) = payload[i].items

\* No scalar field's key is a list field's key followed by '[]'.
NoCollision ==
    \A i \in 1..Len(payload), j \in 1..Len(payload) :
        (payload[i].list /\ ~payload[j].list) =>
            payload[j].name # payload[i].name \o "[]"

\* C7 as stated: for every payload, each list field f yields exactly its
\* elements, in order, under 'f[]', and each scalar field f yields exactly
\* one entry under 'f'.
C7_EveryPayload == formDone => FieldsConverted

\* C7 as amended: the same for every payload in which no scalar field's key
\* equals a list field's key followed by '[]'.
C7_WithoutCollision == (formDone /\ NoCollision) => FieldsConverted

\* A list of two elements and a scalar were converted, the scalar's key
\* ending in '[]' without colliding.
C7_Witness ==
    /\ formDone
    /\ NoCollision
    /\ \E i \in 1..Len(payload), j \in 1..Len(payload) :
          /\ payload[i].list
          /\ Len(payload[i].items) = 2
          /\ payload[i].name = "g"
          /\ ~payload[j].list
          /\ payload[j].name = "f[]"
    /\ Len(formData) = 3

(***************************************************************************)
(* Claims about normalizeProgress (under SpecProgress)                     *)
(***************************************************************************)
\* C8: an event with a computable total makes exactly one call, with the
\* integer round(loaded / total * 100), which lies in 0..100; an event
\* without makes none.
C8_ProgressWithinRange ==
    progressDone =>
        IF event.lengthComputable
        THEN /\ Len(progressCalls) = 1
             /\ progressCalls[1].kind = "number"
             /\ progressCalls[1].n \in 0..100
             /\ 2 * event.total * progressCalls[1].n <= 200 * event.loaded + event.total
             /\ 200 * event.loaded + event.total < 2 * event.total * (progressCalls[1].n + 1)
        ELSE progressCalls = <<>>

(***************************************************************************)
(* Claims about the listener registry and the fan-out (under Spec)         *)
(***************************************************************************)
Listeners == 1..listenerCount

Requests == 1..requestCount

Invoked(l) == {i \in 1..Len(lastHandled.calls) : lastHandled.calls[i].listener = l}

\* C1: as long as every unsubscribe function has been invoked at most once,
\* a listener whose unsubscribe function was invoked is absent from the
\* sequence, a listener whose unsubscribe function was not invoked is still
\* in it, and a failure handled afterwards does not invoke an unsubscribed
\* listener.
C1_UnsubscribeRemovesExactlyL ==
    (\A m \in Listeners : unsubCalled[m] <= 1) =>
        /\ \A l \in Listeners :
              /\ unsubCalled[l] = 1 => l \notin Range(errorListeners)
              /\ unsubCalled[l] = 0 => l \in Range(errorListeners)
        /\ lastHandled # None =>
              \A l \in lastHandled.unsubBefore : Invoked(l) = {}

\* C2: when onError has run to its end for a failure, the listeners it
\* invoked are exactly the sequence as it was when the failure was handled,
\* each once and in that order, all with the same error and the same kind.
C2_FanOutExactlyOnceInOrder ==
    (lastHandled # None /\ ~lastHandled.thrown) =>
        /\ [i \in 1..Len(lastHandled.calls) |-> lastHandled.calls[i].listener]
              = lastHandled.start
        /\ \A i \in 1..Len(lastHandled.calls) :
              /\ lastHandled.calls[i].error = lastHandled.error
              /\ lastHandled.calls[i].type = lastHandled.calls[1].type

\* C9: when onError has run to its end, every listener that was in the
\* sequence at the start of the notification and is still in it at the end
\* (it was not removed meanwhile) was invoked exactly once.
C9_NoRemainingListenerSkipped ==
    (lastHandled # None /\ ~lastHandled.thrown) =>
        \A l \in Range(lastHandled.start) \cap Range(lastHandled.end) :
            Cardinality(Invoked(l)) = 1

\* C10: invoking an unsubscribe function that was invoked before leaves the
\* listener sequence unchanged.
C10_UnsubscribeIdempotent ==
    [][\A l \in Listeners :
          (unsubCalled[l] >= 1 /\ Unsubscribe(l)) => errorListeners' = errorListeners]_vars

(***************************************************************************)
(* Claims about the returned promise and cancellation (under SpecCancel    *)
(* and FairSpecCancel)                                                     *)
(***************************************************************************)
Rejected(value) == [state |-> "rejected", value |-> value]

\* C3: once the transport has rejected a request, the promise request()
\* returned for it is rejected with that very value, and stays so whatever
\* onError and the listeners do afterwards.
C3_RejectionSurfacedUnchanged ==
    \A r \in Requests :
        rejection[r] # None => promises[returned[r]] = Rejected(rejection[r])

\* A failure was handled by a listener that threw, and the caller's promise
\* is settled.
C3_Witness ==
    \E r \in Requests :
        /\ rejection[r] # None
        /\ promises[CatchPromise(r)].state = "rejected"
        /\ promises[CatchPromise(r)].value.kind = "thrown"

CancelledCallsGetCancel ==
    (lastHandled # None /\ isCancel(lastHandled.error)) =>
        \A i \in 1..Len(lastHandled.calls) :
            lastHandled.calls[i].type = errorTypes.cancel

C4_ClassificationOrder ==
    /\ \A r \in Requests :
          notified[r] # "" =>
              LET e == rejection[r] IN
              /\ e.cancel => notified[r] = "cancel"
              /\ (~e.cancel /\ e.response) => notified[r] = "response"
              /\ (~e.cancel /\ ~e.response /\ e.request) => notified[r] = "request"
              /\ (~e.cancel /\ ~e.response /\ ~e.request) => notified[r] = "unknown"
    /\ lastHandled # None =>
          \A i \in 1..Len(lastHandled.calls) :
              lastHandled.calls[i].type = notified[lastHandled.error.of]

\* A cancellation that also carries a response and a request attribute was
\* classified and handed to a listener.
C4_Witness ==
    /\ lastHandled # None
    /\ lastHandled.error.cancel
    /\ lastHandled.error.response
    /\ lastHandled.error.request
    /\ Len(lastHandled.calls) > 0
    /\ notified[lastHandled.error.of] = "cancel"

\* C6: the submitted configuration has the default serializer exactly when
\* the caller supplied none and the default transform exactly when the
\* caller supplied none; a hook the caller supplied is submitted as it is.
C6_DefaultsInstalledIndependently ==
    \A r \in Requests :
        /\ (submitted[r].paramsSerializer = "urlEncode")
              <=> (callerConfig[r].paramsSerializer = "absent")
        /\ (submitted[r].transformRequest = "convertToFormData")
              <=> (callerConfig[r].transformRequest = "absent")
        /\ callerConfig[r].paramsSerializer # "absent" =>
              submitted[r].paramsSerializer = callerConfig[r].paramsSerializer
        /\ callerConfig[r].transformRequest # "absent" =>
              submitted[r].transformRequest = callerConfig[r].transformRequest

\* A request with its own transform and no serializer has been submitted.
C6_Witness ==
    \E r \in Requests :
        /\ callerConfig[r] = [paramsSerializer |-> "absent", transformRequest |-> "custom"]
        /\ submitted[r].paramsSerializer = "urlEncode"
        /\ submitted[r].transformRequest = "custom"

====
